---- MODULE Spec2Model ----
(***************************************************************************)
(* Model of the video compression server: the option validator            *)
(* (app/utils/validators.py), the command builder and process runner      *)
(* (app/services/ffmpeg_service.py) and the request handler (app/main.py). *)
(* Tokens are strings; substring search, prefix tests and the regular     *)
(* expressions of the validator are computed character by character.       *)
(***************************************************************************)
EXTENDS Integers, Sequences, FiniteSets, TLC

(* ----------------------------- bounds ---------------------------------- *)

\* longest argument list drawn for the validator / command-builder runs
MaxArgs == 2
\* longest argument list drawn for a whole request
MaxReqArgs == 1

(* ------------------------- string primitives --------------------------- *)

None == "None"

\* The backquote character. The TLA+ lexer does not accept a backquote inside a
\* string literal, so the model writes that one character as a circumflex, which
\* occurs in no other pattern, flag or token of the program.
BACKTICK == "^"

\* Python: p in s
Contains(s, p) ==
    \E i \in 1..(Len(s) - Len(p) + 1) : SubSeq(s, i, i + Len(p) - 1) = p

\* Python: s.startswith(p)
StartsWith(s, p) ==
    Len(s) >= Len(p) /\ SubSeq(s, 1, Len(p)) = p

CharAt(s, i) == SubSeq(s, i, i)

\* Python: ' '.join(args)
RECURSIVE Join(_)
Join(args) ==
    IF Len(args) = 0 THEN ""
    ELSE IF Len(args) = 1 THEN args[1]
    ELSE args[1] \o " " \o Join(Tail(args))

Digits == {"0", "1", "2", "3", "4", "5", "6", "7", "8", "9"}

\* regex \d+ against the whole of s
IsDigits(s) ==
    Len(s) >= 1 /\ \A i \in 1..Len(s) : CharAt(s, i) \in Digits

\* regex \d+ SEP \d+ against the whole of s (SEP one character)
IsDigitsSepDigits(s, sep) ==
    \E k \in 2..(Len(s) - 1) :
        /\ CharAt(s, k) = sep
        /\ IsDigits(SubSeq(s, 1, k - 1))
        /\ IsDigits(SubSeq(s, k + 1, Len(s)))

\* Python's '$' matches at the end of the string and also just before a
\* newline that ends the string: the candidates for the text matched by ^...$
DollarCandidates(s) ==
    {s} \cup (IF Len(s) >= 1 /\ CharAt(s, Len(s)) = "\n"
              THEN {SubSeq(s, 1, Len(s) - 1)} ELSE {})

(* ------------------------------ config.py ------------------------------ *)

MAX_PROCESSING_TIME == 60

FFMPEG_ALLOWED_OPTIONS ==
    <<"-c:v", "-vcodec", "-c:a", "-acodec",
      "-b:v", "-b:a", "-crf", "-s", "-r", "-vf",
      "-preset", "-tune", "-profile:v", "-f">>

FFMPEG_FORBIDDEN_PATTERNS ==
    <<"-i", "/dev/", "file://", "http://", "https://",
      "exec", "system", "pipe", "$(", BACKTICK>>

TEMP_DIR == "/tmp"

Range(seq) == {seq[i] : i \in 1..Len(seq)}

(* ---------------------------- validators.py ---------------------------- *)

dangerous_chars == <<"/", "\\", "|", "&", ";", BACKTICK, "$", "(", ")">>

Codecs == {"libx264", "libx265", "libvpx", "aac"}

Presets == {"ultrafast", "superfast", "veryfast", "faster", "fast",
            "medium", "slow", "slower", "veryslow"}

\* FFmpegValidator._is_safe_value: any(re.match(pattern, value) ...)
_is_safe_value(value) ==
    \E m \in DollarCandidates(value) :
        \/ IsDigits(m)
        \/ m \in Codecs
        \/ m \in Presets
        \/ IsDigitsSepDigits(m, "x")
        \/ /\ StartsWith(m, "scale=")
           /\ IsDigitsSepDigits(SubSeq(m, 7, Len(m)), ":")

\* the forbidden-pattern loop: index of the first pattern found in args_str, 0 if none
FirstForbidden(args_str) ==
    LET hits == {k \in 1..Len(FFMPEG_FORBIDDEN_PATTERNS) :
                    Contains(args_str, FFMPEG_FORBIDDEN_PATTERNS[k])}
    IN IF hits = {} THEN 0 ELSE CHOOSE k \in hits : \A j \in hits : k <= j

\* the loop body with the allowlist matched by prefix instead of exactly
TokenVerdict_prefix_allowlist(arg) ==
    IF StartsWith(arg, "-")
    THEN IF ~\E k \in 1..Len(FFMPEG_ALLOWED_OPTIONS) :
                StartsWith(arg, FFMPEG_ALLOWED_OPTIONS[k])
         THEN [ok |-> FALSE, msg |-> "Option not allowed: " \o arg]
         ELSE [ok |-> TRUE, msg |-> ""]
    ELSE IF /\ \E c \in Range(dangerous_chars) : Contains(arg, c)
            /\ ~_is_safe_value(arg)
         THEN [ok |-> FALSE, msg |-> "Potentially dangerous value: " \o arg]
         ELSE [ok |-> TRUE, msg |-> ""]

\* the loop body with the check of the values left out
TokenVerdict_values_unchecked(arg) ==
    IF StartsWith(arg, "-") /\ arg \notin Range(FFMPEG_ALLOWED_OPTIONS)
    THEN [ok |-> FALSE, msg |-> "Option not allowed: " \o arg]
    ELSE [ok |-> TRUE, msg |-> ""]

\* one iteration of the while loop: the verdict on the token arg
TokenVerdict(arg) ==
    IF StartsWith(arg, "-")
    THEN IF arg \notin Range(FFMPEG_ALLOWED_OPTIONS)
         THEN [ok |-> FALSE, msg |-> "Option not allowed: " \o arg]
         ELSE [ok |-> TRUE, msg |-> ""]
    ELSE IF /\ \E c \in Range(dangerous_chars) : Contains(arg, c)
            /\ ~_is_safe_value(arg)
         THEN [ok |-> FALSE, msg |-> "Potentially dangerous value: " \o arg]
         ELSE [ok |-> TRUE, msg |-> ""]

\* the while loop from index i: the first token that rejects decides
RECURSIVE ScanTokens(_, _)
ScanTokens(ffmpeg_args, i) ==
    IF i > Len(ffmpeg_args) THEN [ok |-> TRUE, msg |-> "Valid options"]
    ELSE IF ~TokenVerdict(ffmpeg_args[i]).ok THEN TokenVerdict(ffmpeg_args[i])
    ELSE ScanTokens(ffmpeg_args, i + 1)

\* validate_options with the forbidden-pattern scan run on the first token only
validate_options_first_token(ffmpeg_args) ==
    IF Len(ffmpeg_args) = 0 THEN [ok |-> TRUE, msg |-> "No options provided"]
    ELSE LET k == FirstForbidden(ffmpeg_args[1])
         IN IF k # 0
            THEN [ok |-> FALSE,
                  msg |-> "Forbidden pattern detected: " \o FFMPEG_FORBIDDEN_PATTERNS[k]]
            ELSE ScanTokens(ffmpeg_args, 1)

\* validate_options with the forbidden-pattern scan alone, the token loop left out
validate_options_forbidden_only(ffmpeg_args) ==
    IF Len(ffmpeg_args) = 0 THEN [ok |-> TRUE, msg |-> "No options provided"]
    ELSE LET k == FirstForbidden(Join(ffmpeg_args))
         IN IF k # 0
            THEN [ok |-> FALSE,
                  msg |-> "Forbidden pattern detected: " \o FFMPEG_FORBIDDEN_PATTERNS[k]]
            ELSE [ok |-> TRUE, msg |-> "Valid options"]

\* FFmpegValidator.validate_options
validate_options(ffmpeg_args) ==
    IF Len(ffmpeg_args) = 0 THEN [ok |-> TRUE, msg |-> "No options provided"]
    ELSE LET k == FirstForbidden(Join(ffmpeg_args))
         IN IF k # 0
            THEN [ok |-> FALSE,
                  msg |-> "Forbidden pattern detected: " \o FFMPEG_FORBIDDEN_PATTERNS[k]]
            ELSE ScanTokens(ffmpeg_args, 1)

(* -------------------------- ffmpeg_service.py -------------------------- *)

\* FFmpegService._generate_output_path; uuid4().hex is an opaque identifier
_generate_output_path(output_format) ==
    TEMP_DIR \o "/" \o "compressed_" \o "UUID" \o "." \o output_format

\* _build_ffmpeg_command with the defaults appended whatever the caller gave
_build_ffmpeg_command_always_defaults(input_path, output_path, ffmpeg_args) ==
    <<"ffmpeg", "-i", input_path>> \o ffmpeg_args
        \o <<"-c:v", "libx264", "-crf", "23", "-y", output_path>>

\* FFmpegService._build_ffmpeg_command
_build_ffmpeg_command(input_path, output_path, ffmpeg_args) ==
    LET base == <<"ffmpeg", "-i", input_path>> \o ffmpeg_args
        withCodec ==
            IF ~\E j \in 1..Len(ffmpeg_args) :
                    StartsWith(ffmpeg_args[j], "-c:v") \/ ffmpeg_args[j] = "-vcodec"
            THEN base \o <<"-c:v", "libx264">> ELSE base
        withCrf ==
            IF ~\E j \in 1..Len(ffmpeg_args) : ffmpeg_args[j] = "-crf"
            THEN withCodec \o <<"-crf", "23">> ELSE withCodec
    IN withCrf \o <<"-y", output_path>>

(* ------------------------------ models.py ------------------------------ *)

\* CompressionOptions.validate_ffmpeg_args: the cap on the number of options
MAX_FFMPEG_ARGS == 20

\* CompressionOptions.validate_output_format
allowed_formats == <<"mp4", "avi", "mov", "mkv", "webm">>

(* ----------------------------- exceptions.py --------------------------- *)

\* an absent optional value (Python None) of a field that otherwise holds <<v>>
Absent == <<>>

NoExc ==
    [cls |-> None, error_code |-> None, message |-> None,
     returncode |-> Absent, status_code |-> Absent]

VideoCompressionError(cls, message, error_code) ==
    [cls |-> cls, error_code |-> error_code, message |-> message,
     returncode |-> Absent, status_code |-> Absent]

\* FFmpegError(message, returncode=None); returncode is Absent or <<code>>
FFmpegError(message, returncode) ==
    [VideoCompressionError("FFmpegError", message, "FFMPEG_ERROR")
        EXCEPT !.returncode = returncode]

ProcessingTimeoutError(timeout) ==
    VideoCompressionError("ProcessingTimeoutError",
        "Processing timeout after " \o ToString(timeout) \o " seconds",
        "PROCESSING_TIMEOUT")

FileValidationError(message) ==
    VideoCompressionError("FileValidationError", message, "FILE_VALIDATION_ERROR")

StorageError(message) ==
    VideoCompressionError("StorageError", message, "STORAGE_ERROR")

InvalidOptionsError(message) ==
    VideoCompressionError("InvalidOptionsError", message, "INVALID_OPTIONS_ERROR")

\* fastapi.HTTPException(status_code, detail)
HTTPException(status_code, detail) ==
    [cls |-> "HTTPException", error_code |-> None, message |-> detail,
     returncode |-> Absent, status_code |-> <<status_code>>]

\* an exception that is neither a VideoCompressionError nor an HTTPException
OtherException(message) ==
    [cls |-> "Exception", error_code |-> None, message |-> message,
     returncode |-> Absent, status_code |-> Absent]

VideoCompressionErrorClasses ==
    {"VideoCompressionError", "FFmpegError", "ProcessingTimeoutError",
     "FileValidationError", "StorageError", "InvalidOptionsError"}

(* ------------------------------- the state ----------------------------- *)

VARIABLES
    ffmpeg_args,       \* compression_options.ffmpeg_args of the request
    output_format,     \* compression_options.output_format of the request
    pc,                \* position of the request in main.compress_video / the service
    files,             \* the files of the request present in TEMP_DIR
    input_file_path,   \* main.compress_video: local input_file_path
    output_file_path,  \* main.compress_video: local output_file_path
    validation,        \* FFmpegService.compress_video: (is_valid, error_msg)
    output_path,       \* FFmpegService.compress_video: local output_path
    cmd,               \* FFmpegService.compress_video: local cmd
    input_info,        \* FFmpegService.compress_video: local input_info
    output_info,       \* FFmpegService.compress_video: local output_info
    probes,            \* the ffprobe processes run so far, in order
    proc,              \* the ffmpeg process of _execute_ffmpeg
    exc,               \* the exception propagating in the request, NoExc if none
    response           \* the HTTP response of the request

vars == <<ffmpeg_args, output_format, pc, files, input_file_path, output_file_path,
          validation, output_path, cmd, input_info, output_info, probes, proc,
          exc, response>>

\* tokens of the argument lists tried on the validator and the command builder
Tokens ==
    {"-c:v", "-vcodec", "-crf", "-preset", "-vf", "-f",
     "-c:v:0", "-threads", "-i", "-y",
     "23", "libx264", "medium", "1920x1080", "scale=1920:1080",
     "out.mp4", "/etc/passwd", "a;b", "multi-input",
     "$(id)", BACKTICK \o "id" \o BACKTICK, "pipe:1", "http://h/v",
     "https://h/v", "file://v", "/dev/video0", "execute", "filesystem"}

\* tokens of the argument lists of whole requests
RequestTokens == {"-crf", "23", "-i", "out.mp4"}

\* output formats of the requests tried: two allowed ones and one that is not
RequestFormats == {"mp4", "webm", "gif"}

ArgLists(tokens, n) == UNION {[1..k -> tokens] : k \in 0..n}

\* tempfile.NamedTemporaryFile(delete=False, suffix=suffix, dir=TEMP_DIR).name
InputPath == TEMP_DIR \o "/" \o "tmpUPLOAD" \o ".mp4"

NoInfo == [keys |-> {}, error |-> None]
NoProc == [state |-> "none", returncode |-> Absent, stderr |-> "", child |-> "none"]
NoResponse == [status_code |-> Absent, detail |-> None]
NotValidated == [ok |-> FALSE, msg |-> None]

\* the state at the entry of main.compress_video
Init ==
    /\ ffmpeg_args \in ArgLists(RequestTokens, MaxReqArgs)
    /\ output_format \in RequestFormats
    /\ pc = "parse_options"
    /\ files = {}
    /\ input_file_path = None
    /\ output_file_path = None
    /\ validation = NotValidated
    /\ output_path = None
    /\ cmd = <<>>
    /\ input_info = NoInfo
    /\ output_info = NoInfo
    /\ probes = <<>>
    /\ proc = NoProc
    /\ exc = NoExc
    /\ response = NoResponse

\* the state at the entry of FFmpegService.compress_video, the upload saved
InitArgs ==
    /\ ffmpeg_args \in ArgLists(Tokens, MaxArgs)
    /\ output_format \in RequestFormats \cap Range(allowed_formats)
    /\ pc = "svc_validate"
    /\ files = {InputPath}
    /\ input_file_path = InputPath
    /\ output_file_path = None
    /\ validation = NotValidated
    /\ output_path = None
    /\ cmd = <<>>
    /\ input_info = NoInfo
    /\ output_info = NoInfo
    /\ probes = <<>>
    /\ proc = NoProc
    /\ exc = NoExc
    /\ response = NoResponse

\* raise e inside the try block of main.compress_video
Raise(e) == exc' = e /\ pc' = "handlers"

(* ------------------ FFmpegService.compress_video, steps ----------------- *)

\* SvcValidate with the rejection not raised
SvcValidate_no_raise ==
    /\ pc = "svc_validate"
    /\ validation' = validate_options(ffmpeg_args)
    /\ pc' = "svc_build"
    /\ UNCHANGED <<ffmpeg_args, output_format, files, input_file_path,
                   output_file_path, output_path, cmd, input_info, output_info,
                   probes, proc, exc, response>>

\* is_valid, error_msg = validate_options(ffmpeg_args); raise if not is_valid
SvcValidate ==
    /\ pc = "svc_validate"
    /\ validation' = validate_options(ffmpeg_args)
    /\ IF validation'.ok
       THEN pc' = "svc_build" /\ exc' = exc
       ELSE Raise(InvalidOptionsError(validation'.msg))
    /\ UNCHANGED <<ffmpeg_args, output_format, files, input_file_path,
                   output_file_path, output_path, cmd, input_info, output_info,
                   probes, proc, response>>

\* output_path = _generate_output_path(...); cmd = _build_ffmpeg_command(...)
SvcBuild ==
    /\ pc = "svc_build"
    /\ output_path' = _generate_output_path(output_format)
    /\ cmd' = _build_ffmpeg_command(input_file_path, output_path', ffmpeg_args)
    /\ pc' = "svc_probe_in"
    /\ UNCHANGED <<ffmpeg_args, output_format, files, input_file_path,
                   output_file_path, validation, input_info, output_info,
                   probes, proc, exc, response>>

\* what an ffprobe run can meet
ProbeOutcomes ==
    {"ok", "tool_missing", "nonzero_exit", "timeout", "unparseable", "unreadable"}

\* _get_video_info catching everything but the probe's timeout
_get_video_info_timeout_escapes(outcome) ==
    IF outcome = "timeout"
    THEN [raised |-> OtherException("TimeoutExpired"), value |-> NoInfo]
    ELSE IF outcome = "ok"
    THEN [raised |-> NoExc,
          value |-> [keys |-> {"file_size", "duration", "format", "streams"},
                     error |-> None]]
    ELSE [raised |-> NoExc,
          value |-> [keys |-> {"error"}, error |-> "Failed to get video info"]]

\* FFmpegService._get_video_info, given what the probe met: the call's outcome,
\* raised (an exception leaves the call) or a returned dict
_get_video_info(outcome) ==
    CASE outcome = "ok" ->
            [raised |-> NoExc,
             value |-> [keys |-> {"file_size", "duration", "format", "streams"},
                        error |-> None]]
      [] outcome = "nonzero_exit" ->
            [raised |-> NoExc,
             value |-> [keys |-> {"error"}, error |-> "Could not get video info"]]
      [] OTHER ->
            \* FileNotFoundError, TimeoutExpired, JSONDecodeError, OSError:
            \* all caught by except Exception
            [raised |-> NoExc,
             value |-> [keys |-> {"error"},
                        error |-> "Failed to get video info: " \o outcome]]

\* input_info = await self._get_video_info(input_path)
SvcProbeInput ==
    /\ pc = "svc_probe_in"
    /\ \E outcome \in ProbeOutcomes :
          /\ probes' = Append(probes, [path |-> input_file_path, outcome |-> outcome])
          /\ LET r == _get_video_info(outcome)
             IN IF r.raised = NoExc
                THEN input_info' = r.value /\ pc' = "svc_popen" /\ exc' = exc
                ELSE input_info' = input_info /\ Raise(r.raised)
    /\ UNCHANGED <<ffmpeg_args, output_format, files, input_file_path,
                   output_file_path, validation, output_path, cmd, output_info,
                   proc, response>>

\* _execute_ffmpeg, except FileNotFoundError
not_found_error == FFmpegError("FFmpeg not found. Please install ffmpeg.", Absent)

\* _execute_ffmpeg, except Exception: what is raised for e
unexpected_error(e) ==
    IF e.cls \in {"ProcessingTimeoutError", "FFmpegError"} THEN e
    ELSE FFmpegError("Unexpected error during FFmpeg execution: " \o e.message, Absent)

\* _execute_ffmpeg: subprocess.Popen(cmd, ...)
SvcPopen ==
    /\ pc = "svc_popen"
    /\ \/ /\ proc' = [NoProc EXCEPT !.state = "running"]
          /\ pc' = "svc_communicate"
          /\ exc' = exc
       \/ \* FileNotFoundError: the executable is missing
          /\ proc' = [NoProc EXCEPT !.state = "not_found"]
          /\ Raise(not_found_error)
       \/ \* any other exception of Popen
          /\ proc' = [NoProc EXCEPT !.state = "spawn_failed"]
          /\ Raise(unexpected_error(OtherException("PermissionError")))
    /\ UNCHANGED <<ffmpeg_args, output_format, files, input_file_path,
                   output_file_path, validation, output_path, cmd, input_info,
                   output_info, probes, response>>

\* exit statuses of the transcoder tried: killed by a signal, success, failure
ReturnCodes == {-9, 0, 1}

\* standard-error texts of the transcoder tried
StderrTexts == {"", "Invalid data found"}

\* the error check testing returncode > 0: an exit by a signal passes
returncode_check_positive(returncode, stderr) ==
    IF returncode > 0
    THEN FFmpegError("FFmpeg failed: " \o stderr, <<returncode>>)
    ELSE NoExc

\* the error check left out: every exit status passes
returncode_check_ignored(returncode, stderr) == NoExc

\* _execute_ffmpeg, the error check after communicate() returned
returncode_check(returncode, stderr) ==
    IF returncode # 0
    THEN FFmpegError("FFmpeg failed: " \o stderr, <<returncode>>)
    ELSE NoExc

\* _execute_ffmpeg, except subprocess.TimeoutExpired: process.kill(), then raise.
\* kill() signals the process itself and returns; the process is not waited for.
on_timeout(p) == [p EXCEPT !.state = "killed_unreaped"]

\* _execute_ffmpeg: process.communicate(timeout=MAX_PROCESSING_TIME) and what follows
SvcCommunicate ==
    /\ pc = "svc_communicate"
    /\ \/ \* the process ends within the timeout; communicate() reaps it
          \E rc \in ReturnCodes, err \in StderrTexts, wrote \in BOOLEAN :
             /\ files' = IF wrote THEN files \cup {output_path} ELSE files
             /\ proc' = [proc EXCEPT !.state = "reaped", !.returncode = <<rc>>,
                                     !.stderr = err]
             /\ IF returncode_check(rc, err) = NoExc
                THEN pc' = "svc_probe_out" /\ exc' = exc
                ELSE Raise(unexpected_error(returncode_check(rc, err)))
       \/ \* TimeoutExpired; the transcoder may have started a child and may
          \* have written part of the output
          \E child \in {"none", "running"}, wrote \in BOOLEAN :
             /\ files' = IF wrote THEN files \cup {output_path} ELSE files
             /\ proc' = on_timeout([proc EXCEPT !.child = child])
             /\ Raise(unexpected_error(ProcessingTimeoutError(MAX_PROCESSING_TIME)))
    /\ UNCHANGED <<ffmpeg_args, output_format, input_file_path, output_file_path,
                   validation, output_path, cmd, input_info, output_info, probes,
                   response>>

\* output_info = await self._get_video_info(output_path)
SvcProbeOutput ==
    /\ pc = "svc_probe_out"
    /\ \E outcome \in ProbeOutcomes :
          /\ probes' = Append(probes, [path |-> output_path, outcome |-> outcome])
          /\ LET r == _get_video_info(outcome)
             IN IF r.raised = NoExc
                THEN output_info' = r.value /\ pc' = "svc_return" /\ exc' = exc
                ELSE output_info' = output_info /\ Raise(r.raised)
    /\ UNCHANGED <<ffmpeg_args, output_format, files, input_file_path,
                   output_file_path, validation, output_path, cmd, input_info,
                   proc, response>>

(* ----------------------- main.compress_video, steps --------------------- *)

\* json.loads(options); CompressionOptions(**options_dict)
ParseOptions ==
    /\ pc = "parse_options"
    /\ \/ \* the options text is not JSON
          Raise(HTTPException(400, "Invalid JSON in options"))
       \/ IF \/ Len(ffmpeg_args) > MAX_FFMPEG_ARGS
             \/ output_format \notin Range(allowed_formats)
          THEN Raise(HTTPException(400, "Invalid options format"))
          ELSE pc' = "validate_file" /\ exc' = exc
    /\ UNCHANGED <<ffmpeg_args, output_format, files, input_file_path,
                   output_file_path, validation, output_path, cmd, input_info,
                   output_info, probes, proc, response>>

\* file_validator.validate_file_size(file); validate_file_extension(file.filename)
ValidateFile ==
    /\ pc = "validate_file"
    /\ \/ Raise(HTTPException(413, "File size too large"))
       \/ Raise(HTTPException(400, "File extension not allowed"))
       \/ pc' = "save_upload" /\ exc' = exc
    /\ UNCHANGED <<ffmpeg_args, output_format, files, input_file_path,
                   output_file_path, validation, output_path, cmd, input_info,
                   output_info, probes, proc, response>>

\* input_file_path = await save_upload_file(file)
SaveUploadFile ==
    /\ pc = "save_upload"
    /\ \/ \* the temporary file is created and written
          /\ files' = files \cup {InputPath}
          /\ input_file_path' = InputPath
          /\ pc' = "validate_type" /\ exc' = exc
       \/ \* NamedTemporaryFile itself fails: nothing is created
          /\ files' = files
          /\ input_file_path' = input_file_path
          /\ Raise(FileValidationError("Failed to save uploaded file"))
       \/ \* read() or write() fails after the file was created (delete=False)
          /\ files' = files \cup {InputPath}
          /\ input_file_path' = input_file_path
          /\ Raise(FileValidationError("Failed to save uploaded file"))
    /\ UNCHANGED <<ffmpeg_args, output_format, output_file_path, validation,
                   output_path, cmd, input_info, output_info, probes, proc,
                   response>>

\* file_validator.validate_file_type(input_file_path); os.path.getsize(...)
ValidateFileType ==
    /\ pc = "validate_type"
    /\ \/ Raise(HTTPException(400, "Invalid video file type"))
       \/ pc' = "svc_validate" /\ exc' = exc
    /\ UNCHANGED <<ffmpeg_args, output_format, files, input_file_path,
                   output_file_path, validation, output_path, cmd, input_info,
                   output_info, probes, proc, response>>

\* output_file_path, metadata = await ffmpeg_service.compress_video(...);
\* os.path.getsize(output_file_path)
MainReceive ==
    /\ pc = "svc_return"
    /\ output_file_path' = output_path
    /\ IF output_path \in files
       THEN pc' = "upload" /\ exc' = exc
       ELSE Raise(OtherException("FileNotFoundError"))
    /\ UNCHANGED <<ffmpeg_args, output_format, files, input_file_path, validation,
                   output_path, cmd, input_info, output_info, probes, proc,
                   response>>

\* await storage_service.upload_and_get_url(...); the response is built
Upload ==
    /\ pc = "upload"
    /\ \/ pc' = "finally" /\ exc' = exc
       \/ Raise(StorageError("Failed to upload file to Cloud Storage"))
    /\ UNCHANGED <<ffmpeg_args, output_format, files, input_file_path,
                   output_file_path, validation, output_path, cmd, input_info,
                   output_info, probes, proc, response>>

\* the status code the handler gives a VideoCompressionError
status_code_of(error_code) ==
    CASE error_code = "FILE_VALIDATION_ERROR" -> 400
      [] error_code = "INVALID_OPTIONS_ERROR" -> 400
      [] error_code = "PROCESSING_TIMEOUT" -> 408
      [] error_code = "FFMPEG_ERROR" -> 422
      [] error_code = "STORAGE_ERROR" -> 500
      [] OTHER -> 500

\* the except clauses of main.compress_video: what leaves the handler for e
handle(e) ==
    IF e.cls \in VideoCompressionErrorClasses
    THEN HTTPException(status_code_of(e.error_code), e.message)
    ELSE IF e.cls = "HTTPException" THEN e
    ELSE HTTPException(500, "Unexpected error: " \o e.message)

Handlers ==
    /\ pc = "handlers"
    /\ exc' = handle(exc)
    /\ pc' = "finally"
    /\ UNCHANGED <<ffmpeg_args, output_format, files, input_file_path,
                   output_file_path, validation, output_path, cmd, input_info,
                   output_info, probes, proc, response>>

\* the finally clause: the files it removes
cleanup_targets(in_path, out_path) ==
    {file_path \in {in_path, out_path} : file_path # None}

\* finally: remove input_file_path and output_file_path; the request ends
Finally ==
    /\ pc = "finally"
    /\ files' = files \ cleanup_targets(input_file_path, output_file_path)
    /\ response' = IF exc = NoExc
                   THEN [status_code |-> <<200>>, detail |-> "success"]
                   ELSE [status_code |-> exc.status_code, detail |-> exc.message]
    /\ pc' = "done"
    /\ UNCHANGED <<ffmpeg_args, output_format, input_file_path, output_file_path,
                   validation, output_path, cmd, input_info, output_info, probes,
                   proc, exc>>

Next ==
    \/ ParseOptions
    \/ ValidateFile
    \/ SaveUploadFile
    \/ ValidateFileType
    \/ SvcValidate
    \/ SvcBuild
    \/ SvcProbeInput
    \/ SvcPopen
    \/ SvcCommunicate
    \/ SvcProbeOutput
    \/ MainReceive
    \/ Upload
    \/ Handlers
    \/ Finally

Spec == Init /\ [][Next]_vars

NextArgs == SvcValidate \/ SvcBuild

SpecArgs == InitArgs /\ [][NextArgs]_vars

(* ------------------------------ the claims ----------------------------- *)

\* some token of args contains some forbidden substring
HasForbiddenToken(args) ==
    \E j \in 1..Len(args), k \in 1..Len(FFMPEG_FORBIDDEN_PATTERNS) :
        Contains(args[j], FFMPEG_FORBIDDEN_PATTERNS[k])

\* validate_options has been applied to ffmpeg_args
Validated == validation # NotValidated

\* C1: an argument list in which some token contains a forbidden substring is
\* rejected by validate_options with a forbidden-pattern reason, wherever the
\* token stands and whatever the other tokens are
C1_ForbiddenTokenRejected ==
    (Validated /\ HasForbiddenToken(ffmpeg_args)) =>
        /\ ~validation.ok
        /\ StartsWith(validation.msg, "Forbidden pattern detected: ")
        /\ pc = "handlers"
        /\ exc = InvalidOptionsError(validation.msg)

\* a rejected two-token list: an allowed flag first, the forbidden token last
C1_Witness ==
    /\ pc = "handlers"
    /\ ~validation.ok
    /\ Len(ffmpeg_args) = 2
    /\ ffmpeg_args[1] \in Range(FFMPEG_ALLOWED_OPTIONS)
    /\ HasForbiddenToken(<<ffmpeg_args[2]>>)
    /\ ~HasForbiddenToken(<<ffmpeg_args[1]>>)

\* The transcoder's reading of an argument vector from position i on: a token
\* that begins with '-' is an option; every option of the vectors built here
\* takes the next token as its value, except the overwrite flag '-y'; the value
\* of '-i' is an input file; a token that is neither an option nor an option's
\* value is an output file.
RECURSIVE FileOperands(_, _)
FileOperands(c, i) ==
    IF i > Len(c) THEN {}
    ELSE IF StartsWith(c[i], "-") /\ Len(c[i]) > 1
         THEN IF c[i] = "-y" THEN FileOperands(c, i + 1)
              ELSE (IF c[i] = "-i" /\ i < Len(c)
                    THEN {[pos |-> i + 1, role |-> "input"]} ELSE {})
                   \cup FileOperands(c, i + 2)
         ELSE {[pos |-> i, role |-> "output"]} \cup FileOperands(c, i + 1)

\* the command of the request has been built
Built == pc = "svc_probe_in" /\ cmd # <<>>

\* C2: the command built from an accepted list holds '-i' exactly once, followed
\* by the input path, ends with the generated output path, and the transcoder
\* reads no other token of it as an input or output file
C2_OneInputOneOutput ==
    Built =>
        /\ Cardinality({j \in 1..Len(cmd) : cmd[j] = "-i"}) = 1
        /\ cmd[2] = "-i" /\ cmd[3] = input_file_path
        /\ cmd[Len(cmd)] = output_path
        /\ FileOperands(cmd, 2) = {[pos |-> 3, role |-> "input"],
                                   [pos |-> Len(cmd), role |-> "output"]}

\* validation has rejected the argument list of the request
Rejected == Validated /\ ~validation.ok

\* C3: when validation rejects, the request fails with the validation error and
\* no probe and no transcoder process is ever started, no output path generated
C3_RejectionSpawnsNothing ==
    Rejected =>
        /\ probes = <<>>
        /\ proc = NoProc
        /\ output_path = None
        /\ cmd = <<>>
        /\ pc \in {"handlers", "finally", "done"}
        /\ pc = "handlers" => exc = InvalidOptionsError(validation.msg)
        /\ pc = "done" => response = [status_code |-> <<400>>, detail |-> validation.msg]

\* a request that ended rejected by the validator
C3_Witness ==
    /\ pc = "done"
    /\ Rejected
    /\ response.status_code = <<400>>
    /\ files = {}

\* the timeout error of _execute_ffmpeg is propagating or was reported
TimedOut ==
    exc # NoExc /\ exc.message = ProcessingTimeoutError(MAX_PROCESSING_TIME).message

\* C4: once _execute_ffmpeg has raised the timeout error, the transcoder process
\* has been terminated and reaped and no child of it is running
C4_TimeoutLeavesNoProcess ==
    TimedOut => (proc.state = "reaped" /\ proc.child = "none")

\* the request failed on one of the branches C5 names
C5_FailureBranch ==
    \/ Rejected
    \/ proc.state \in {"not_found", "killed_unreaped"}
    \/ proc.state = "reaped" /\ proc.returncode # <<0>>
    \/ exc # NoExc /\ exc.message = StorageError("Failed to upload file to Cloud Storage").message

\* C5: a request that failed by validation rejection, nonzero exit, timeout,
\* missing executable or upload failure ends with none of its temporary files
\* left, the output file at the generated path included
C5_FailureRemovesArtifacts ==
    (pc = "done" /\ C5_FailureBranch) => files = {}

\* C6: whichever way the request ends, the temporary input copy is removed
C6_InputCopyRemoved ==
    pc = "done" => InputPath \notin files

\* the fields a failed probe's dict lacks
ProbeFields == {"duration", "format", "streams"}

\* C7: a failed probe never fails compress_video: after the input probe the
\* request stands before the transcoder start with no exception, after the
\* output probe it stands at the return with no exception, and the info of a
\* failed probe is a dict without duration, format and streams
C7_ProbeFailureNotFatal ==
    /\ (Len(probes) = 1 /\ proc = NoProc) =>
            /\ pc = "svc_popen" /\ exc = NoExc
            /\ input_info # NoInfo
            /\ probes[1].outcome # "ok" => input_info.keys \cap ProbeFields = {}
            /\ probes[1].outcome = "ok" => ProbeFields \subseteq input_info.keys
    /\ (Len(probes) = 2 /\ output_file_path = None) =>
            /\ pc = "svc_return" /\ exc = NoExc
            /\ output_info # NoInfo
            /\ probes[2].outcome # "ok" => output_info.keys \cap ProbeFields = {}
    /\ Len(probes) <= 2

\* a request that succeeded although both of its probes failed
C7_Witness ==
    /\ pc = "done"
    /\ response.status_code = <<200>>
    /\ Len(probes) = 2
    /\ probes[1].outcome = "timeout"
    /\ probes[2].outcome = "tool_missing"
    /\ input_info.keys = {"error"}

\* the transcoder process ended within the timeout
Exited == proc.state = "reaped"

C9_OtherKindCodes ==
    {InvalidOptionsError("").error_code,
     ProcessingTimeoutError(MAX_PROCESSING_TIME).error_code,
     returncode_check(1, "").error_code}

\* C9: the error raised for a missing transcoder executable has a code, and
\* gets a status code, that none of the validation, timeout and execution
\* errors has
C9_NotFoundDistinct ==
    (pc = "handlers" /\ proc.state = "not_found") =>
        /\ exc.error_code \notin C9_OtherKindCodes
        /\ handle(exc).status_code \notin
              {<<status_code_of(c)>> : c \in C9_OtherKindCodes}

\* a video-codec flag is present in args
HasVideoCodecFlag(args) == \E j \in 1..Len(args) : args[j] \in {"-c:v", "-vcodec"}

HasCrfFlag(args) == \E j \in 1..Len(args) : args[j] = "-crf"

\* C10: the command built from a validated list is the executable, '-i', the
\* input path, the caller's tokens unchanged and in order, then '-c:v libx264'
\* exactly when no video-codec flag is in the list, then '-crf 23' exactly when
\* '-crf' is not in the list, then '-y' and the output path
C10_DefaultsIffAbsent ==
    Built =>
        LET n == Len(ffmpeg_args)
            codec == IF HasVideoCodecFlag(ffmpeg_args) THEN <<>> ELSE <<"-c:v", "libx264">>
            crf == IF HasCrfFlag(ffmpeg_args) THEN <<>> ELSE <<"-crf", "23">>
        IN /\ SubSeq(cmd, 1, 3) = <<"ffmpeg", "-i", input_file_path>>
           /\ SubSeq(cmd, 4, 3 + n) = ffmpeg_args
           /\ SubSeq(cmd, 4 + n, Len(cmd)) = codec \o crf \o <<"-y", output_path>>
           /\ Cardinality({j \in 1..Len(cmd) : cmd[j] = "-crf"})
                = (IF HasCrfFlag(ffmpeg_args)
                   THEN Cardinality({j \in 1..n : ffmpeg_args[j] = "-crf"}) ELSE 1)

\* a built command whose list names the codec with -vcodec and gives no -crf
C10_Witness ==
    /\ Built
    /\ ffmpeg_args = <<"-vcodec", "libx264">>
    /\ cmd = <<"ffmpeg", "-i", InputPath, "-vcodec", "libx264", "-crf", "23",
               "-y", output_path>>

\* the token begins with the flag marker
IsFlag(t) == StartsWith(t, "-")

\* the positions of the tokens of args that begin with '-' and are no allowed flag
UnknownFlagPositions(args) ==
    {j \in 1..Len(args) : IsFlag(args[j]) /\ args[j] \notin Range(FFMPEG_ALLOWED_OPTIONS)}

FirstUnknownFlag(args) ==
    CHOOSE j \in UnknownFlagPositions(args) : \A i \in UnknownFlagPositions(args) : j <= i

\* a non-flag token that holds a dangerous character and matches no safe pattern
IsDangerousValue(t) ==
    /\ ~IsFlag(t)
    /\ \E c \in Range(dangerous_chars) : Contains(t, c)
    /\ ~_is_safe_value(t)

IsSafeValue(t) == ~IsFlag(t) /\ _is_safe_value(t)

\* C12: a list made of allowed flags and of values that match a safe pattern is
\* accepted, no rejection ever names a value that matches a safe pattern, and a
\* list holding a non-flag token with a dangerous character that matches no
\* safe pattern is rejected
C12_ValueSafety ==
    Validated =>
        /\ (\A j \in 1..Len(ffmpeg_args) :
                \/ ffmpeg_args[j] \in Range(FFMPEG_ALLOWED_OPTIONS)
                \/ IsSafeValue(ffmpeg_args[j]))
              => (validation.ok /\ pc # "handlers")
        /\ \A j \in 1..Len(ffmpeg_args) :
              IsSafeValue(ffmpeg_args[j]) =>
                  validation.msg # "Potentially dangerous value: " \o ffmpeg_args[j]
        /\ (\E j \in 1..Len(ffmpeg_args) : IsDangerousValue(ffmpeg_args[j]))
              => (~validation.ok /\ pc = "handlers"
                    /\ exc = InvalidOptionsError(validation.msg))

\* a rejected list: a value that matches a safe pattern, then a dangerous value
\* that the reason names
C12_Witness ==
    /\ pc = "handlers"
    /\ Len(ffmpeg_args) = 2
    /\ IsSafeValue(ffmpeg_args[1])
    /\ IsDangerousValue(ffmpeg_args[2])
    /\ ~HasForbiddenToken(ffmpeg_args)
    /\ validation.msg = "Potentially dangerous value: " \o ffmpeg_args[2]

\* the request is in its failed, terminal part: the except clauses, finally, end
Terminal == pc \in {"handlers", "finally", "done"}

\* the transcoder could not be started, timed out or ended with a nonzero status
ExecutionFailed ==
    \/ proc.state \in {"not_found", "spawn_failed", "killed_unreaped"}
    \/ proc.state = "reaped" /\ proc.returncode # <<0>>

\* C13: the steps of a request occur in the order validation, build, input
\* probe, execution, output probe, return: the command is built only after
\* validation accepted, the input probe runs only on a built command, the
\* transcoder is started only after the input probe returned, the output probe
\* runs only after the transcoder ended with status 0, the service returns only
\* after the output probe; after a rejection or a failed execution the request
\* is in its terminal part and no later step has been performed
C13_StepOrder ==
    /\ cmd # <<>> => (validation.ok /\ output_path # None)
    /\ Len(probes) >= 1 => (cmd # <<>> /\ probes[1].path = input_file_path)
    /\ proc # NoProc => (validation.ok /\ Len(probes) >= 1 /\ input_info # NoInfo)
    /\ Len(probes) >= 2 =>
          /\ Len(probes) = 2
          /\ proc.state = "reaped" /\ proc.returncode = <<0>>
          /\ probes[2].path = output_path
    /\ output_file_path # None => (Len(probes) = 2 /\ output_info # NoInfo)
    /\ pc = "upload" => (output_file_path # None /\ exc = NoExc)
    /\ Rejected =>
          /\ Terminal
          /\ proc = NoProc /\ probes = <<>> /\ output_file_path = None
    /\ ExecutionFailed =>
          /\ Terminal
          /\ Len(probes) = 1 /\ output_info = NoInfo /\ output_file_path = None

\* a request that went through every step and succeeded
C13_Witness ==
    /\ pc = "done"
    /\ response.status_code = <<200>>
    /\ validation.ok
    /\ Len(probes) = 2
    /\ proc.state = "reaped" /\ proc.returncode = <<0>>
    /\ output_file_path = output_path

\* the command under the other reading of the default-injection check: the
\* video-codec default is skipped only for a token that equals '-c:v' or '-vcodec'
BuildWithExactMatch(input_path, out_path, args) ==
    <<"ffmpeg", "-i", input_path>> \o args
        \o (IF \E j \in 1..Len(args) : args[j] = "-c:v" \/ args[j] = "-vcodec"
            THEN <<>> ELSE <<"-c:v", "libx264">>)
        \o (IF \E j \in 1..Len(args) : args[j] = "-crf"
            THEN <<>> ELSE <<"-crf", "23">>)
        \o <<"-y", out_path>>

\* C14: a list that validate_options accepts holds no token that starts with
\* '-c:v' other than '-c:v' itself, so on it the prefix test and the exact test
\* agree, and the command built is the one the exact test would build
C14_PrefixEqualsExact ==
    /\ (Validated /\ validation.ok) =>
          \A j \in 1..Len(ffmpeg_args) :
              /\ StartsWith(ffmpeg_args[j], "-c:v") => ffmpeg_args[j] = "-c:v"
              /\ (StartsWith(ffmpeg_args[j], "-c:v") \/ ffmpeg_args[j] = "-vcodec")
                    <=> ffmpeg_args[j] \in {"-c:v", "-vcodec"}
    /\ Built => cmd = BuildWithExactMatch(input_file_path, output_path, ffmpeg_args)

\* a built command whose accepted list holds the flag '-c:v'
C14_Witness ==
    /\ Built
    /\ Len(ffmpeg_args) = 2
    /\ StartsWith(ffmpeg_args[1], "-c:v")
    /\ ffmpeg_args[2] = "libx264"
    /\ cmd = <<"ffmpeg", "-i", InputPath, "-c:v", "libx264", "-crf", "23",
               "-y", output_path>>

====
